---- MODULE Spec2Model ----
(***************************************************************************)
(* Killer Sudoku: Cage validation (killer_sudoku/cage.py), puzzle          *)
(* construction, neighbor map and solver (killer_sudoku/killer_sudoku.py). *)
(*                                                                         *)
(* Cells are pairs <<i, j>> with 0-based coordinates as in the source.     *)
(* A board is a sequence of rows, so board[i][j] of the source is          *)
(* board[i+1][j+1] here.  A Python list is a sequence, a set a set, a dict *)
(* a function.  An optional object is a sequence of length 0 or 1.         *)
(***************************************************************************)
EXTENDS Integers, Sequences, FiniteSets, TLC

VARIABLES
  cage_args,      \* the (sum, cells) handed to Cage(...)
  cage_call,      \* outcome of that Cage(...) call
  arg_cages,      \* the cages handed to KillerSudoku(...)
  arg_board,      \* the board handed to KillerSudoku(...)
  ks_status,      \* "none" | "ok" | "ValueError": outcome of KillerSudoku(...)
  board,          \* KillerSudoku.board
  cages,          \* KillerSudoku.cages
  rows,           \* KillerSudoku._rows
  columns,        \* KillerSudoku._columns
  subgrids,       \* KillerSudoku._subgrids
  neighbors_map,  \* KillerSudoku._neighbors_map
  solver_status,  \* "none" | "ready": whether a _Solver has been constructed
  empty_cell_possibilities,  \* _Solver.empty_cell_possibilities
  result          \* the last call made on the puzzle or the solver, and how it ended

vars == <<cage_args, cage_call, arg_cages, arg_board, ks_status, board, cages,
          rows, columns, subgrids, neighbors_map, solver_status,
          empty_cell_possibilities, result>>

(***************************************************************************)
(* Bounds of the explored inputs                                           *)
(***************************************************************************)
MaxCells == 10   \* Cage(...) is tried with 0..MaxCells cells
MaxSum == 46     \* Cage(...) is tried with sums 0..MaxSum
MaxIdx == 3      \* cage lists are varied at the cages 1..MaxIdx
MaxProbe == 2    \* boards are edited inside the top-left MaxProbe x MaxProbe corner
MaxEdits == 1    \* at most MaxEdits cells of a base board are edited

(***************************************************************************)
(* Program constants                                                       *)
(***************************************************************************)
N == 9
GroupSum == 45

Coords == 0..(N - 1)
AllCells == Coords \X Coords
Range(s) == {s[k] : k \in 1..Len(s)}

RECURSIVE SeqSum(_)
SeqSum(s) == IF Len(s) = 0 THEN 0 ELSE Head(s) + SeqSum(Tail(s))

(***************************************************************************)
(* killer_sudoku/static_data.py: the (min, max) cage sum per cell count.   *)
(***************************************************************************)
possible_cage_sum_min_max ==
  [k \in 1..9 |-> <<(k * (k + 1)) \div 2, 9 * k - ((k * (k - 1)) \div 2)>>]

(***************************************************************************)
(* Cage.__init__                                                           *)
(***************************************************************************)
NoObject == <<>>

\* The validation of Cage.__init__ without the uniqueness test.
CageValidateNoUnique(sum, cells) ==
  IF Len(cells) < 1 \/ Len(cells) > 9 THEN "ValueError"
  ELSE LET cage_sum_min == possible_cage_sum_min_max[Len(cells)][1]
           cage_sum_max == possible_cage_sum_min_max[Len(cells)][2]
       IN IF sum < cage_sum_min \/ sum > cage_sum_max THEN "ValueError"
          ELSE IF \E k \in 1..Len(cells) :
                    \/ cells[k][1] < 0 \/ cells[k][1] > 8
                    \/ cells[k][2] < 0 \/ cells[k][2] > 8
               THEN "ValueError"
          ELSE "ok"

\* The "Validate inputs" part of Cage.__init__: the first failing test raises.
CageValidate(sum, cells) ==
  IF Len(cells) < 1 \/ Len(cells) > 9 THEN "ValueError"
  ELSE LET cage_sum_min == possible_cage_sum_min_max[Len(cells)][1]
           cage_sum_max == possible_cage_sum_min_max[Len(cells)][2]
       IN IF sum < cage_sum_min \/ sum > cage_sum_max THEN "ValueError"
          ELSE IF Len(cells) > Cardinality(Range(cells)) THEN "ValueError"
          ELSE IF \E k \in 1..Len(cells) :
                    \/ cells[k][1] < 0 \/ cells[k][1] > 8
                    \/ cells[k][2] < 0 \/ cells[k][2] > 8
               THEN "ValueError"
          ELSE "ok"

\* Cage(sum, cells): the exception raised ("" for none) and the object built.
Cage(sum, cells) ==
  IF CageValidate(sum, cells) = "ok"
  THEN [raised |-> "", obj |-> <<[sum |-> sum, cells |-> cells]>>]
  ELSE [raised |-> CageValidate(sum, cells), obj |-> NoObject]

(***************************************************************************)
(* KillerSudoku.__init__                                                   *)
(***************************************************************************)
\* "Check board size"
BoardSizeError(b) ==
  \/ Len(b) # 9
  \/ \E i \in 1..Len(b) : Len(b[i]) # 9

\* The cells of all cages in iteration order (for cage in cages: for cell in cage.cells)
RECURSIVE CellsInOrder(_)
CellsInOrder(cs) ==
  IF Len(cs) = 0 THEN <<>> ELSE Head(cs).cells \o CellsInOrder(Tail(cs))

\* The loop over the cells: raises at the first cell already in unique_cells.
RECURSIVE ScanCells(_, _, _)
ScanCells(flat, k, unique_cells) ==
  IF k > Len(flat) THEN [raised |-> "", unique_cells |-> unique_cells]
  ELSE IF flat[k] \in unique_cells
       THEN [raised |-> "ValueError", unique_cells |-> unique_cells]
       ELSE ScanCells(flat, k + 1, unique_cells \cup {flat[k]})

\* The partition check without the test on the number of cells.
PartitionErrorNoCount(cs) ==
  ScanCells(CellsInOrder(cs), 1, {}).raised # ""

\* "Check that cells are unique to a single cage, and that cages encompass all 81 cells"
PartitionError(cs) ==
  LET scan == ScanCells(CellsInOrder(cs), 1, {})
  IN \/ scan.raised # ""
     \/ Cardinality(scan.unique_cells) # 81

\* "Add cages for rows"
Rows == [i \in 1..9 |-> Cage(GroupSum, [j \in 1..9 |-> <<i - 1, j - 1>>]).obj[1]]

\* "Add cages for columns"
Columns == [j \in 1..9 |-> Cage(GroupSum, [i \in 1..9 |-> <<i - 1, j - 1>>]).obj[1]]

\* subgrid_index = (i // 3) * 3 + (j // 3)
SubgridIndex(i, j) == (i \div 3) * 3 + (j \div 3)

\* "Add cages for subgrids": subgrids[subgrid_index][i % 3 * 3 + j % 3] = (i, j)
Subgrids ==
  [s \in 1..9 |->
     Cage(GroupSum,
          [p \in 1..9 |->
             CHOOSE cell \in AllCells :
               /\ SubgridIndex(cell[1], cell[2]) = s - 1
               /\ (cell[1] % 3) * 3 + (cell[2] % 3) = p - 1]).obj[1]]

\* [c for c in group.cells] : the comprehension without its filter
OthersUnfiltered(group, cell) == group.cells

\* [c for c in group.cells if c != cell]
Others(group, cell) == SelectSeq(group.cells, LAMBDA c : c # cell)

\* for group in groups: for cell in group.cells:
\*   neighbors_map[cell][kind] = [c for c in group.cells if c != cell]
\* from group k on, m being the entries written so far (a later write wins).
RECURSIVE KindMap(_, _, _)
KindMap(groups, k, m) ==
  IF k > Len(groups) THEN m
  ELSE KindMap(groups, k + 1,
               [cell \in Range(groups[k].cells) |-> Others(groups[k], cell)] @@ m)

\* KillerSudoku._get_neighbors_map: a dict per cell, with a key for each kind
\* of group that some loop iteration wrote for that cell.
get_neighbors_map(rs, cols, subs, cs) ==
  LET kind_map == [row     |-> KindMap(rs, 1, <<>>),
                   column  |-> KindMap(cols, 1, <<>>),
                   subgrid |-> KindMap(subs, 1, <<>>),
                   cage    |-> KindMap(cs, 1, <<>>)]
  IN [cell \in AllCells |->
        [kind \in {kd \in DOMAIN kind_map : cell \in DOMAIN kind_map[kd]} |->
           kind_map[kind][cell]]]

NoMap == [cell \in {} |-> <<>>]

(***************************************************************************)
(* _Solver                                                                 *)
(***************************************************************************)
NoneValue == [kind |-> "None", grid |-> <<>>]
ErrorValue(name) == [kind |-> name, grid |-> <<>>]
BoardValue(b) == [kind |-> "board", grid |-> b]

\* Python truth value of a returned value: None is false, an exception object
\* and a non-empty list are true.
Truthy(v) == v.kind # "None"

\* A store with a domain entry for every cell.
SolverInitAllCells(b) == [cell \in AllCells |-> 1..9]

\* _Solver.__init__: "Initialize empty cells to have domain 1-9"
SolverInit(b) ==
  [cell \in {c \in AllCells : b[c[1] + 1][c[2] + 1] = 0} |-> 1..9]

\* _Solver.solve: a bare return; the call of _recursive_solve is commented out.
SolverSolve(b, possibilities) == [how |-> "returned", value |-> NoneValue]

\* KillerSudoku.solve: every branch is a return statement.
KsSolve(b, raising) ==
  LET solution == SolverSolve(b, SolverInit(b)).value
  IN IF Truthy(solution) THEN [how |-> "returned", value |-> solution]
     ELSE IF raising THEN [how |-> "returned", value |-> ErrorValue("UnsolvableError")]
     ELSE [how |-> "returned", value |-> NoneValue]

\* _Solver._recursive_solve: with cells left, the first statement of the loop
\* body calls self._impossible(board), which takes two arguments besides self,
\* so the call raises TypeError; with no cells left the board is returned.
RecursiveSolve(b, possibilities) ==
  IF Cardinality(DOMAIN possibilities) > 0
  THEN [how |-> "raised", value |-> ErrorValue("TypeError")]
  ELSE [how |-> "returned", value |-> BoardValue(b)]

\* _Solver._fill_board(board, empty_cell_possibilities): iterating the dict
\* yields its keys (i, j), which unpack into two ints, and len() of an int
\* raises TypeError before anything is written; an empty dict is a no-op.
FillBoard(b, possibilities) ==
  IF DOMAIN possibilities # {}
  THEN [how |-> "raised", value |-> ErrorValue("TypeError"),
        board |-> b, possibilities |-> possibilities]
  ELSE [how |-> "returned", value |-> NoneValue,
        board |-> b, possibilities |-> possibilities]

(***************************************************************************)
(* Inputs                                                                  *)
(***************************************************************************)
\* A solved grid: row i is 1..9 rotated by 3*(i mod 3) + i div 3.
Sol(i, j) == ((3 * (i % 3) + (i \div 3) + j) % 9) + 1

SolvedBoard == [r \in 1..9 |-> [c \in 1..9 |-> Sol(r - 1, c - 1)]]

\* The default board of KillerSudoku.__init__
BlankBoard == [r \in 1..9 |-> [c \in 1..9 |-> 0]]

\* A board with 8 rows
ShortBoard == SubSeq(SolvedBoard, 1, 8)

SetCell(b, cell, v) == [b EXCEPT ![cell[1] + 1][cell[2] + 1] = v]

ProbeCells == (0..(MaxProbe - 1)) \X (0..(MaxProbe - 1))
EditValues == {0, 5}

RECURSIVE EditedBoards(_)
EditedBoards(n) ==
  IF n = 0 THEN {BlankBoard, SolvedBoard}
  ELSE EditedBoards(n - 1) \cup
       {SetCell(b, cell, v) : b \in EditedBoards(n - 1), cell \in ProbeCells, v \in EditValues}

BoardInputs == EditedBoards(MaxEdits) \cup {ShortBoard}

\* The cage list of the base puzzle: every row cut into three cages of three
\* cells, with the sums of the solved grid.
TripleCells(n) ==
  LET i == (n - 1) \div 3
      k == (n - 1) % 3
  IN <<<<i, 3 * k>>, <<i, 3 * k + 1>>, <<i, 3 * k + 2>>>>

CellSum(cells) == SeqSum([p \in 1..Len(cells) |-> Sol(cells[p][1], cells[p][2])])

TripleCage(n) == Cage(CellSum(TripleCells(n)), TripleCells(n)).obj[1]

BaseCages == [n \in 1..27 |-> TripleCage(n)]

RemoveAt(s, d) == SubSeq(s, 1, d - 1) \o SubSeq(s, d + 1, Len(s))

ShiftDown(cells) == [p \in 1..Len(cells) |-> <<cells[p][1] + 1, cells[p][2]>>]

CageVariant(kind, d) ==
  CASE kind = "exact" -> BaseCages
    [] kind = "drop" -> RemoveAt(BaseCages, d)
    [] kind = "dup" -> Append(BaseCages, BaseCages[d])
    [] kind = "shift" ->
         [BaseCages EXCEPT ![d] = Cage(BaseCages[d].sum, ShiftDown(BaseCages[d].cells)).obj[1]]
    [] kind = "merge" ->
         LET cells == BaseCages[d].cells \o BaseCages[d + 1].cells
         IN <<Cage(CellSum(cells), cells).obj[1]>> \o RemoveAt(RemoveAt(BaseCages, d), d)
    [] kind = "conflict" ->
         \* cages 1 and 2 lie in row 0 and both are forced to hold {1, 2, 3}
         [BaseCages EXCEPT ![1] = Cage(6, BaseCages[1].cells).obj[1],
                           ![2] = Cage(6, BaseCages[2].cells).obj[1]]

CageListInputs ==
  {CageVariant("exact", 1), CageVariant("conflict", 1)} \cup
  {CageVariant(kind, d) : kind \in {"drop", "dup", "shift", "merge"}, d \in 1..MaxIdx}

RowMajor(n) == <<n \div 9, n % 9>>
OddCells == {<<0 - 1, 0>>, <<0, 0 - 1>>, <<9, 0>>, <<0, 9>>, <<0, 0>>}

CellListInputs ==
  {[p \in 1..k |-> RowMajor(p - 1)] : k \in 0..MaxCells} \cup
  {[p \in 1..k |-> IF p = q THEN odd ELSE RowMajor(p - 1)] :
      k \in 1..MaxCells, q \in 1..MaxCells, odd \in OddCells}

CageArgInputs == [sum : 0..MaxSum, cells : CellListInputs]

(***************************************************************************)
(* State machine                                                           *)
(***************************************************************************)
NoResult == [op |-> "none", raising |-> FALSE, how |-> "", value |-> NoneValue]
NoCall == [raised |-> "", obj |-> NoObject, done |-> FALSE]
NoArgs == [sum |-> 0, cells |-> <<>>]

PuzzleIdle ==
  /\ arg_cages = <<>>
  /\ arg_board = <<>>
  /\ ks_status = "none"
  /\ board = <<>>
  /\ cages = <<>>
  /\ rows = <<>>
  /\ columns = <<>>
  /\ subgrids = <<>>
  /\ neighbors_map = NoMap
  /\ solver_status = "none"
  /\ empty_cell_possibilities = NoMap
  /\ result = NoResult

puzzle_vars == <<arg_cages, arg_board, ks_status, board, cages, rows, columns,
                 subgrids, neighbors_map, solver_status,
                 empty_cell_possibilities, result>>

Init ==
  /\ cage_args = NoArgs
  /\ cage_call = NoCall
  /\ PuzzleIdle

\* KillerSudoku(cages=cs, board=b)
NewKillerSudoku(cs, b) ==
  /\ ks_status = "none"
  /\ arg_cages' = cs
  /\ arg_board' = b
  /\ IF BoardSizeError(b) \/ PartitionError(cs)
     THEN /\ ks_status' = "ValueError"
          /\ UNCHANGED <<board, cages, rows, columns, subgrids, neighbors_map>>
     ELSE /\ ks_status' = "ok"
          /\ board' = b
          /\ cages' = cs
          /\ rows' = Rows
          /\ columns' = Columns
          /\ subgrids' = Subgrids
          /\ neighbors_map' = get_neighbors_map(Rows, Columns, Subgrids, cs)
  /\ UNCHANGED <<cage_args, cage_call, solver_status, empty_cell_possibilities, result>>

\* _Solver(ks)
NewSolver ==
  /\ ks_status = "ok"
  /\ solver_status = "none"
  /\ solver_status' = "ready"
  /\ empty_cell_possibilities' = SolverInit(board)
  /\ UNCHANGED <<cage_args, cage_call, arg_cages, arg_board, ks_status, board, cages,
                 rows, columns, subgrids, neighbors_map, result>>

\* ks.solve(raising): builds a _Solver and calls its solve()
Solve(raising) ==
  /\ ks_status = "ok"
  /\ solver_status' = "ready"
  /\ empty_cell_possibilities' = SolverInit(board)
  /\ result' = [op |-> "solve", raising |-> raising,
                how |-> KsSolve(board, raising).how,
                value |-> KsSolve(board, raising).value]
  /\ UNCHANGED <<cage_args, cage_call, arg_cages, arg_board, ks_status, board, cages,
                 rows, columns, subgrids, neighbors_map>>

\* solver._recursive_solve(ks.board, solver.empty_cell_possibilities)
CallRecursiveSolve ==
  /\ solver_status = "ready"
  /\ result' = [op |-> "_recursive_solve", raising |-> FALSE,
                how |-> RecursiveSolve(board, empty_cell_possibilities).how,
                value |-> RecursiveSolve(board, empty_cell_possibilities).value]
  /\ UNCHANGED <<cage_args, cage_call, arg_cages, arg_board, ks_status, board, cages,
                 rows, columns, subgrids, neighbors_map, solver_status,
                 empty_cell_possibilities>>

\* _Solver._fill_board(ks.board, solver.empty_cell_possibilities)
CallFillBoard ==
  /\ solver_status = "ready"
  /\ LET r == FillBoard(board, empty_cell_possibilities)
     IN /\ result' = [op |-> "_fill_board", raising |-> FALSE,
                      how |-> r.how, value |-> r.value]
        /\ board' = r.board
        /\ empty_cell_possibilities' = r.possibilities
  /\ UNCHANGED <<cage_args, cage_call, arg_cages, arg_board, ks_status, cages,
                 rows, columns, subgrids, neighbors_map, solver_status>>

Next ==
  \/ \E cs \in CageListInputs, b \in BoardInputs : NewKillerSudoku(cs, b)
  \/ NewSolver
  \/ \E raising \in BOOLEAN : Solve(raising)
  \/ CallRecursiveSolve
  \/ CallFillBoard

Spec == Init /\ [][Next]_vars

\* Cage construction on its own: the arguments are drawn, then Cage(...) runs.
InitCage ==
  /\ cage_args \in CageArgInputs
  /\ cage_call = NoCall
  /\ PuzzleIdle

NewCage ==
  /\ ~cage_call.done
  /\ cage_call' = [raised |-> Cage(cage_args.sum, cage_args.cells).raised,
                   obj |-> Cage(cage_args.sum, cage_args.cells).obj,
                   done |-> TRUE]
  /\ UNCHANGED <<cage_args, puzzle_vars>>

NextCage == NewCage

SpecCage == InitCage /\ [][NextCage]_vars

(***************************************************************************)
(* Properties                                                              *)
(***************************************************************************)
Value(b, cell) == b[cell[1] + 1][cell[2] + 1]

WellFormed(b) == Len(b) = 9 /\ \A r \in 1..9 : Len(b[r]) = 9

\* The 27 fixed groups as sets of cells.
RowGroup(i) == {cell \in AllCells : cell[1] = i}
ColumnGroup(j) == {cell \in AllCells : cell[2] = j}
SubgridGroup(s) == {cell \in AllCells : (cell[1] \div 3) * 3 + (cell[2] \div 3) = s}
FixedGroups ==
  {RowGroup(i) : i \in 0..8} \cup {ColumnGroup(j) : j \in 0..8}
    \cup {SubgridGroup(s) : s \in 0..8}

Distinct(b, group) ==
  \A c1, c2 \in group : c1 # c2 => Value(b, c1) # Value(b, c2)

\* b is fully assigned and meets every row, column, subgrid and cage constraint.
ValidSolution(b, cs) ==
  /\ WellFormed(b)
  /\ \A cell \in AllCells : Value(b, cell) \in 1..9
  /\ \A group \in FixedGroups : {Value(b, cell) : cell \in group} = 1..9
  /\ \A k \in 1..Len(cs) :
       /\ Distinct(b, Range(cs[k].cells))
       /\ SeqSum([p \in 1..Len(cs[k].cells) |-> Value(b, cs[k].cells[p])]) = cs[k].sum

C2_SolveIdempotent ==
  (result.op = "solve" /\ ValidSolution(arg_board, cages))
    => (result.how = "returned" /\ result.value = BoardValue(arg_board)
        /\ board = arg_board)

\* The bad arguments of a cage, as the data model states them.
MinSumOf(k) == (k * (k + 1)) \div 2
LargestSumOf(k) == SeqSum([p \in 1..k |-> 10 - p])
CageArgsInvalid(sum, cells) ==
  \/ Len(cells) \notin 1..9
  \/ \E p \in 1..Len(cells) : cells[p][1] \notin 0..8 \/ cells[p][2] \notin 0..8
  \/ \E p, q \in 1..Len(cells) : p # q /\ cells[p] = cells[q]
  \/ sum < MinSumOf(Len(cells))
  \/ sum > LargestSumOf(Len(cells))

\* C3: Cage(sum, cells) fails with the cage error (ValueError in the source)
\* and produces no object when the cell count is outside [1,9], a coordinate
\* is outside [0,8], a cell is repeated, or the sum is outside
\* [k(k+1)/2, sum of the k largest digits] for its cell count k.
C3_InvalidCageRejected ==
  (cage_call.done /\ CageArgsInvalid(cage_args.sum, cage_args.cells))
    => (cage_call.raised = "ValueError" /\ cage_call.obj = NoObject)

C3_Witness ==
  /\ cage_call.done
  /\ cage_args = [sum |-> 10, cells |-> <<<<0, 0>>>>]
  /\ cage_call.raised = "ValueError"

CagesNotPartition(cs) ==
  \/ UNION {Range(cs[k].cells) : k \in 1..Len(cs)} # AllCells
  \/ \E a, b \in 1..Len(cs) : a # b /\ Range(cs[a].cells) \cap Range(cs[b].cells) # {}

\* C4: KillerSudoku(cages, board) fails with the puzzle error (ValueError in
\* the source) when the cages' cells are not exactly the 81 cells or a cell
\* lies in two cages, and then no group, neighbor map or solver state exists.
C4_NonPartitionRejected ==
  (ks_status # "none" /\ CagesNotPartition(arg_cages))
    => /\ ks_status = "ValueError"
       /\ Len(rows) = 0 /\ Len(columns) = 0 /\ Len(subgrids) = 0
       /\ DOMAIN neighbors_map = {}
       /\ solver_status = "none"
       /\ DOMAIN empty_cell_possibilities = {}

C4_Witness ==
  /\ ks_status = "ValueError"
  /\ WellFormed(arg_board)
  /\ UNION {Range(arg_cages[k].cells) : k \in 1..Len(arg_cages)} # AllCells

\* Two cells of one row, column, subgrid or cage hold the same non-zero digit.
BoardConflict(b, cs) ==
  \E group \in FixedGroups \cup {Range(cs[k].cells) : k \in 1..Len(cs)} :
    \E c1, c2 \in group :
      c1 # c2 /\ Value(b, c1) # 0 /\ Value(b, c1) = Value(b, c2)

\* C5: KillerSudoku(cages, board) fails at construction when a pre-filled
\* cell of the board conflicts with a group constraint.
C5_ConflictingBoardRejected ==
  (ks_status # "none" /\ WellFormed(arg_board) /\ BoardConflict(arg_board, arg_cages))
    => ks_status = "ValueError"

\* C6: when solve() finds no solution, the Unsolvable outcome is returned as
\* a value (None) with raising false, and raised as UnsolvableError with
\* raising true.
C6_UnsolvableOutcome ==
  (result.op = "solve" /\ result.value.kind # "board")
    => IF result.raising
       THEN result.how = "raised" /\ result.value.kind = "UnsolvableError"
       ELSE result.how = "returned" /\ result.value = NoneValue

\* C7: the solver's main loop, entered on any starting board of a valid
\* puzzle, runs the rules to a fixpoint, hands over to backtracking and ends
\* by returning an outcome: the solved board or no solution.
C7_MainLoopReturnsOutcome ==
  result.op = "_recursive_solve"
    => (result.how = "returned" /\ result.value.kind \in {"board", "None"})

CageOf(cs, cell) == CHOOSE k \in 1..Len(cs) : cell \in Range(cs[k].cells)

ExactlyPeers(list, group, cell) ==
  /\ Range(list) = group \ {cell}
  /\ Len(list) = Cardinality(group \ {cell})

\* C8: after construction the neighbor map holds, for each of the 81 cells
\* and each group kind, exactly the other cells of the cell's group of that
\* kind (8 per row, column and subgrid; the rest of its cage), never the
\* cell itself, and the peer relation is symmetric.
C8_NeighborsMap ==
  ks_status = "ok"
    => /\ DOMAIN neighbors_map = AllCells
       /\ \A cell \in AllCells :
            LET nm == neighbors_map[cell]
            IN /\ DOMAIN nm = {"row", "column", "subgrid", "cage"}
               /\ ExactlyPeers(nm.row, RowGroup(cell[1]), cell)
               /\ ExactlyPeers(nm.column, ColumnGroup(cell[2]), cell)
               /\ ExactlyPeers(nm.subgrid,
                               SubgridGroup((cell[1] \div 3) * 3 + (cell[2] \div 3)), cell)
               /\ ExactlyPeers(nm.cage, Range(cages[CageOf(cages, cell)].cells), cell)
               /\ Len(nm.row) = 8 /\ Len(nm.column) = 8 /\ Len(nm.subgrid) = 8
               /\ \A kind \in DOMAIN nm :
                    /\ cell \notin Range(nm[kind])
                    /\ \A peer \in Range(nm[kind]) :
                         cell \in Range(neighbors_map[peer][kind])

C8_Witness ==
  /\ ks_status = "ok"
  /\ \E cell \in AllCells : Len(neighbors_map[cell].cage) = 5

Peers(cell) ==
  UNION {Range(neighbors_map[cell][kind]) : kind \in {"row", "column", "subgrid", "cage"}}

\* C9: every assignment removes the value from the domains of the cell's
\* peers, so in every solver state no unassigned cell's domain contains a
\* digit already assigned to one of its peers.
C9_NoPeerDigitInDomain ==
  solver_status = "ready"
    => \A cell \in DOMAIN empty_cell_possibilities :
         \A peer \in Peers(cell) :
           Value(board, peer) = 0
             \/ Value(board, peer) \notin empty_cell_possibilities[cell]

\* C10: the store starts with the domain 1-9 for every unassigned cell and no
\* entry for an assigned cell, and no later step adds a candidate to a
\* domain or creates an entry.
C10_DomainsOnlyShrink ==
  [][solver_status' = "ready" =>
       /\ \A cell \in AllCells :
            Value(board', cell) # 0 => cell \notin DOMAIN empty_cell_possibilities'
       /\ solver_status = "none" =>
            \A cell \in AllCells :
              Value(board', cell) = 0 =>
                /\ cell \in DOMAIN empty_cell_possibilities'
                /\ empty_cell_possibilities'[cell] = 1..9
       /\ solver_status = "ready" =>
            /\ DOMAIN empty_cell_possibilities' \subseteq DOMAIN empty_cell_possibilities
            /\ \A cell \in DOMAIN empty_cell_possibilities' :
                 empty_cell_possibilities'[cell] \subseteq empty_cell_possibilities[cell]
    ]_vars

C10_Witness ==
  /\ solver_status = "ready"
  /\ result.op \in {"_fill_board", "_recursive_solve"}
  /\ \E cell \in AllCells : Value(board, cell) # 0
  /\ \E cell \in AllCells : Value(board, cell) = 0

====
